---- MODULE Spec2Model ----
(***************************************************************************)
(* A model of src/toy.cpp: the streaming lexer (gettok), the recursive-    *)
(* descent / precedence-climbing parser, and the driver loop of main.      *)
(*                                                                         *)
(* Characters are their ASCII codes, EOF is -1, and a token is the int     *)
(* gettok returns (a negative Token enumerator or a character code), as in *)
(* the source.  Strings are sequences of character codes.                  *)
(***************************************************************************)
EXTENDS Integers, Sequences, FiniteSets, TLC

VARIABLES
    src,              \* the whole text standard input will deliver (fixed)
    input,            \* the part of it getchar() has not delivered yet
    nread,            \* number of getchar() calls made so far
    LastChar,         \* gettok's static LastChar
    IdentifierStr,    \* static IdentifierStr
    NumVal,           \* static NumVal
    CurTok,           \* static CurTok
    BinopPrecedence,  \* static std::map<char,int> BinopPrecedence
    errs,             \* the LogError messages written to stderr, in order
    ntok,             \* number of getNextToken() calls made so far
    fed,              \* TRUE when a test feeds the parser tokens directly
    stream,           \* the tokens such a test has not delivered yet
    prompts,          \* parity of the number of "ready>" prompts printed
    pc,               \* position of the running program / harness
    toks,             \* lexer harness: the tokens gettok has returned
    extra,            \* lexer harness: gettok calls made after the first tok_eof
    given,            \* parser harness: the token stream handed over (fixed)
    last              \* what the last step did (call record)

vars == <<src, input, nread, LastChar, IdentifierStr, NumVal, CurTok,
          BinopPrecedence, errs, ntok, fed, stream, prompts, pc, toks, extra,
          given, last>>

----------------------------------------------------------------------------
(* Characters *)

EOF == -1

Ord(c) ==
    CASE c = " "  -> 32
      [] c = "\n" -> 10
      [] c = "\r" -> 13
      [] c = "#"  -> 35
      [] c = "("  -> 40
      [] c = ")"  -> 41
      [] c = "*"  -> 42
      [] c = "+"  -> 43
      [] c = ","  -> 44
      [] c = "-"  -> 45
      [] c = "."  -> 46
      [] c = "0"  -> 48
      [] c = "1"  -> 49
      [] c = "2"  -> 50
      [] c = "3"  -> 51
      [] c = "5"  -> 53
      [] c = ";"  -> 59
      [] c = "<"  -> 60
      [] c = "D"  -> 68
      [] c = "_"  -> 95
      [] c = "a"  -> 97
      [] c = "b"  -> 98
      [] c = "c"  -> 99
      [] c = "d"  -> 100
      [] c = "e"  -> 101
      [] c = "f"  -> 102
      [] c = "m"  -> 109
      [] c = "n"  -> 110
      [] c = "o"  -> 111
      [] c = "p"  -> 112
      [] c = "r"  -> 114
      [] c = "t"  -> 116
      [] c = "x"  -> 120

Str(s) == [i \in 1..Len(s) |-> Ord(s[i])]

isspace(c) == c = 32 \/ (c >= 9 /\ c <= 13)
isalpha(c) == (c >= 65 /\ c <= 90) \/ (c >= 97 /\ c <= 122)
isdigit(c) == c >= 48 /\ c <= 57
isalnum(c) == isalpha(c) \/ isdigit(c)
isascii(c) == c >= 0 /\ c <= 127

----------------------------------------------------------------------------
(* Tokens *)

tok_eof == -1
tok_def == -2
tok_extern == -3
tok_identifier == -4
tok_number == -5

----------------------------------------------------------------------------
(* The machine: the statics of toy.cpp plus stdin, as one record, so that  *)
(* the functions of the source are operators from machine to machine.      *)
(* ret is the value the last lexer call returned, prec the value the last  *)
(* GetTokPrecedence returned, res the pointer the last parse returned, str  *)
(* gettok's local NumStr.                                                  *)

NULL == [kind |-> "nullptr"]

\* strtod's result: the decimal number m / 10^e in lowest terms of ten.
Dec(m, e) == [m |-> m, e |-> e]

\* No LogError has been called yet in the current call.
NoFail == [set |-> FALSE]

Machine ==
    [input |-> input, nread |-> nread, LastChar |-> LastChar,
     IdentifierStr |-> IdentifierStr, NumVal |-> NumVal, CurTok |-> CurTok,
     BinopPrecedence |-> BinopPrecedence, errs |-> errs, ntok |-> ntok,
     fed |-> fed, stream |-> stream,
     str |-> <<>>, ret |-> 0, prec |-> 0, res |-> NULL, fail |-> NoFail]

\* The statics of the translation unit and the unread input, as machine r
\* holds them.
Statics(r) ==
    [input |-> r.input, nread |-> r.nread, LastChar |-> r.LastChar,
     IdentifierStr |-> r.IdentifierStr, NumVal |-> r.NumVal,
     CurTok |-> r.CurTok, BinopPrecedence |-> r.BinopPrecedence,
     errs |-> r.errs, ntok |-> r.ntok, stream |-> r.stream]

Store(r) ==
    /\ input' = r.input
    /\ nread' = r.nread
    /\ LastChar' = r.LastChar
    /\ IdentifierStr' = r.IdentifierStr
    /\ NumVal' = r.NumVal
    /\ CurTok' = r.CurTok
    /\ BinopPrecedence' = r.BinopPrecedence
    /\ errs' = r.errs
    /\ ntok' = r.ntok
    /\ stream' = r.stream

----------------------------------------------------------------------------
(* Sequencing.  Bind(v, F) is F(v) with v evaluated once, first: the       *)
(* statements of a C++ function body run one after the other, each on the  *)
(* machine the previous one left.                                          *)

Bind(v, F(_)) == CHOOSE y \in {F(x) : x \in {v}} : TRUE

----------------------------------------------------------------------------
(* Lexer *)

\* LastChar = getchar();
ReadChar(r) ==
    IF r.input = <<>>
    THEN [r EXCEPT !.LastChar = EOF, !.nread = @ + 1]
    ELSE [r EXCEPT !.LastChar = Head(r.input), !.input = Tail(r.input),
                   !.nread = @ + 1]

\* while (isspace(LastChar)) LastChar = getchar();
RECURSIVE SkipSpace(_)
SkipSpace(r) ==
    IF isspace(r.LastChar) THEN Bind(ReadChar(r), LAMBDA r1 : SkipSpace(r1))
    ELSE r

\* an identifier loop that reads past the character that ended the scan
RECURSIVE ScanIdentifier_Discards(_)
ScanIdentifier_Discards(r) ==
    Bind(ReadChar(r), LAMBDA r1 :
        IF isalnum(r1.LastChar)
        THEN Bind([r1 EXCEPT !.IdentifierStr = Append(@, r1.LastChar)],
                  LAMBDA r2 : ScanIdentifier_Discards(r2))
        ELSE ReadChar(r1))

\* while (isalnum((LastChar = getchar()))) IdentifierStr += LastChar;
RECURSIVE ScanIdentifier(_)
ScanIdentifier(r) ==
    Bind(ReadChar(r), LAMBDA r1 :
        IF isalnum(r1.LastChar)
        THEN Bind([r1 EXCEPT !.IdentifierStr = Append(@, r1.LastChar)],
                  LAMBDA r2 : ScanIdentifier(r2))
        ELSE r1)

\* a classification that tests for the keyword as a prefix
Keyword_Prefix(s) ==
    IF Len(s) >= 3 /\ SubSeq(s, 1, 3) = Str(<<"d", "e", "f">>) THEN tok_def
    ELSE IF s = Str(<<"e", "x", "t", "e", "r", "n">>) THEN tok_extern
    ELSE tok_identifier

Keyword(s) ==
    IF s = Str(<<"d", "e", "f">>) THEN tok_def
    ELSE IF s = Str(<<"e", "x", "t", "e", "r", "n">>) THEN tok_extern
    ELSE tok_identifier

\* do { NumStr += LastChar; LastChar = getchar(); }
\* while (isdigit(LastChar) || LastChar == '.');
\* NumStr is a local of gettok; the machine carries it in field str.
IsNumChar(c) == isdigit(c) \/ c = 46

RECURSIVE ScanNumber(_)
ScanNumber(r) ==
    Bind(ReadChar([r EXCEPT !.str = Append(@, r.LastChar)]), LAMBDA r1 :
        IF IsNumChar(r1.LastChar) THEN ScanNumber(r1) ELSE r1)

\* strtod on a string of digits and dots: the longest prefix of the shape
\* digits [ '.' digits ] holding at least one digit is converted; a string
\* with no such prefix converts to 0.
RECURSIVE DigitRun(_)
DigitRun(s) ==
    IF s # <<>> /\ isdigit(Head(s)) THEN <<Head(s)>> \o DigitRun(Tail(s))
    ELSE <<>>

RECURSIVE DigitsValue(_, _)
DigitsValue(s, acc) ==
    IF s = <<>> THEN acc ELSE DigitsValue(Tail(s), acc * 10 + (Head(s) - 48))

RECURSIVE Normalise(_, _)
Normalise(m, e) ==
    IF e > 0 /\ m % 10 = 0 THEN Normalise(m \div 10, e - 1) ELSE Dec(m, e)

strtod(s) ==
    LET ip   == DigitRun(s)
        rest == SubSeq(s, Len(ip) + 1, Len(s))
        fp   == IF rest # <<>> /\ Head(rest) = 46 THEN DigitRun(Tail(rest))
                ELSE <<>>
    IN  IF ip = <<>> /\ fp = <<>> THEN Dec(0, 0)
        ELSE Normalise(DigitsValue(ip \o fp, 0), Len(fp))

\* do { LastChar = getchar(); }
\* while (LastChar != EOF && LastChar != '\n' && LastChar != '\r');
CommentEnd_NoCR(c) == c = EOF \/ c = 10

CommentEnd(c) == c = EOF \/ c = 10 \/ c = 13

RECURSIVE SkipComment(_)
SkipComment(r) ==
    Bind(ReadChar(r), LAMBDA r1 :
        IF CommentEnd(r1.LastChar) THEN r1 ELSE SkipComment(r1))

\* a tail that also reads on when it returns tok_eof
LexTail_ReadsOn(r) ==
    Bind(ReadChar(r), LAMBDA r1 :
        [r1 EXCEPT !.ret = IF r.LastChar # EOF THEN tok_eof ELSE r.LastChar])

\* if (LastChar != EOF) return tok_eof;
\* int ThisChar = LastChar; LastChar = getchar(); return ThisChar;
LexTail(r) ==
    IF r.LastChar # EOF THEN [r EXCEPT !.ret = tok_eof]
    ELSE [ReadChar(r) EXCEPT !.ret = r.LastChar]

RECURSIVE gettok(_)
gettok(r) ==
    Bind(SkipSpace(r), LAMBDA r1 :
        IF isalpha(r1.LastChar) THEN
            Bind(ScanIdentifier([r1 EXCEPT !.IdentifierStr = <<r1.LastChar>>]),
                 LAMBDA r2 : [r2 EXCEPT !.ret = Keyword(r2.IdentifierStr)])
        ELSE IF IsNumChar(r1.LastChar) THEN
            Bind(ScanNumber([r1 EXCEPT !.str = <<>>]), LAMBDA r2 :
                [r2 EXCEPT !.NumVal = strtod(r2.str), !.str = <<>>,
                           !.ret = tok_number])
        ELSE IF r1.LastChar = 35 THEN
            Bind(SkipComment(r1), LAMBDA r2 :
                IF r2.LastChar # EOF THEN gettok(r2) ELSE LexTail(r2))
        ELSE LexTail(r1))

----------------------------------------------------------------------------
(* Abstract syntax tree *)

NumberExprAST(Val) == [kind |-> "Number", Val |-> Val]
VariableExprAST(Name) == [kind |-> "Variable", Name |-> Name]
BinaryExprAST(Op, LHS, RHS) ==
    [kind |-> "Binary", Op |-> Op, LHS |-> LHS, RHS |-> RHS]
CallExprAST(Callee, Args) == [kind |-> "Call", Callee |-> Callee, Args |-> Args]
PrototypeAST(Name, Args) == [kind |-> "Prototype", Name |-> Name, Args |-> Args]
FunctionAST(Proto, Body) == [kind |-> "Function", Proto |-> Proto, Body |-> Body]

IsNull(p) == p.kind = "nullptr"

----------------------------------------------------------------------------
(* Parser *)

\* A parser unit test hands the parser a token stream directly: when fed is
\* set, the lexer call delivers the next token of stream (and tok_eof for
\* ever after its end), leaving in IdentifierStr / NumVal what gettok leaves
\* there for such a token.
StreamTok(r) ==
    IF r.stream = <<>> THEN [r EXCEPT !.ret = tok_eof]
    ELSE LET t == Head(r.stream) IN
         [r EXCEPT !.stream = Tail(@),
                   !.ret = t.tok,
                   !.IdentifierStr = IF t.tok \in {tok_identifier, tok_def, tok_extern}
                                     THEN t.id ELSE @,
                   !.NumVal = IF t.tok = tok_number THEN t.num ELSE @]

\* static int getNextToken() { return CurTok = gettok(); }
getNextToken(r) ==
    Bind(IF r.fed THEN StreamTok(r) ELSE gettok(r), LAMBDA r1 :
        [r1 EXCEPT !.CurTok = r1.ret, !.ntok = @ + 1])

\* BinopPrecedence[key]: std::map::operator[] inserts key -> 0 when absent.
MapIndex(tbl, key) ==
    IF key \in DOMAIN tbl THEN tbl ELSE tbl @@ (key :> 0)

\* a lookup that rejects negative precedences only
GetTokPrecedence_ZeroOk(r) ==
    IF ~isascii(r.CurTok) THEN [r EXCEPT !.prec = -1]
    ELSE Bind(MapIndex(r.BinopPrecedence, r.CurTok), LAMBDA tbl :
             [r EXCEPT !.BinopPrecedence = tbl,
                       !.prec = IF tbl[r.CurTok] < 0 THEN -1
                                ELSE tbl[r.CurTok]])

GetTokPrecedence(r) ==
    IF ~isascii(r.CurTok) THEN [r EXCEPT !.prec = -1]
    ELSE Bind(MapIndex(r.BinopPrecedence, r.CurTok), LAMBDA tbl :
             [r EXCEPT !.BinopPrecedence = tbl,
                       !.prec = IF tbl[r.CurTok] <= 0 THEN -1
                                ELSE tbl[r.CurTok]])

\* LogError / LogErrorP: print the message, return nullptr.  Field fail
\* observes the first failure of a call: the statics as they are when the
\* function that reports it returns.
LogError(r, msg) ==
    Bind([r EXCEPT !.errs = Append(@, msg), !.res = NULL], LAMBDA r1 :
        IF r.fail.set THEN r1
        ELSE [r1 EXCEPT !.fail = [set |-> TRUE, at |-> Statics(r1)]])

RECURSIVE ParseExpression(_)
RECURSIVE ParsePrimay(_)
RECURSIVE ParseBinOpRHS(_, _, _)
RECURSIVE ParseArguments(_, _, _)

ParseNumberExpr(r) ==
    Bind(getNextToken(r), LAMBDA r1 :
        [r1 EXCEPT !.res = NumberExprAST(r.NumVal)])

\* a ParseParenExpr without the if (!V) return nullptr;
ParseParenExpr_NoCheck(r) ==
    Bind(getNextToken(r), LAMBDA r1 :
    Bind(ParseExpression(r1), LAMBDA r2 :
        IF r2.CurTok # 41 THEN LogError(r2, "expected ')'")
        ELSE Bind(getNextToken(r2), LAMBDA r3 : [r3 EXCEPT !.res = r2.res])))

ParseParenExpr(r) ==
    Bind(getNextToken(r), LAMBDA r1 :
    Bind(ParseExpression(r1), LAMBDA r2 :
        IF IsNull(r2.res) THEN r2
        ELSE IF r2.CurTok # 41 THEN LogError(r2, "expected ')'")
        ELSE Bind(getNextToken(r2), LAMBDA r3 : [r3 EXCEPT !.res = r2.res])))

\* the tail of ParseIdentifierExpr: getNextToken(); return CallExprAST
FinishCall(r, IdName, Args) ==
    Bind(getNextToken(r), LAMBDA r1 :
        [r1 EXCEPT !.res = CallExprAST(IdName, Args)])

\* the while (true) loop of ParseIdentifierExpr
ParseArguments(r, IdName, Args) ==
    Bind(ParseExpression(r), LAMBDA r1 :
        IF IsNull(r1.res) THEN r1
        ELSE IF r1.CurTok = 41
             THEN FinishCall(r1, IdName, Append(Args, r1.res))
        ELSE IF r1.CurTok # 44
             THEN LogError(r1, "Expected ')' or ',' in argument list")
        ELSE Bind(getNextToken(r1), LAMBDA r2 :
                 ParseArguments(r2, IdName, Append(Args, r1.res))))

ParseIdentifierExpr(r) ==
    Bind(getNextToken(r), LAMBDA r1 :
        IF r1.CurTok # 40
        THEN [r1 EXCEPT !.res = VariableExprAST(r.IdentifierStr)]
        ELSE Bind(getNextToken(r1), LAMBDA r2 :
                 IF r2.CurTok # 41
                 THEN ParseArguments(r2, r.IdentifierStr, <<>>)
                 ELSE FinishCall(r2, r.IdentifierStr, <<>>)))

ParsePrimay(r) ==
    IF r.CurTok = tok_identifier THEN ParseIdentifierExpr(r)
    ELSE IF r.CurTok = tok_number THEN ParseNumberExpr(r)
    ELSE IF r.CurTok = 40 THEN ParseParenExpr(r)
    ELSE LogError(r, "unknown token when expecting an expression")

\* a join that lets an operator of equal precedence take the right operand
BinOpJoin_RightAssoc(ExprPrec, LHS, BinOp, TokPrec, RHS, g1) ==
    Bind(IF TokPrec <= g1.prec THEN ParseBinOpRHS(TokPrec, RHS, g1)
         ELSE [g1 EXCEPT !.res = RHS],
         LAMBDA r2 :
             IF IsNull(r2.res) THEN r2
             ELSE ParseBinOpRHS(ExprPrec, BinaryExprAST(BinOp, LHS, r2.res), r2))

\* The part of the loop body of ParseBinOpRHS after RHS = ParsePrimay():
\* g1 is the machine after the NextPrec lookup, RHS the primary just parsed.
BinOpJoin(ExprPrec, LHS, BinOp, TokPrec, RHS, g1) ==
    Bind(IF TokPrec < g1.prec THEN ParseBinOpRHS(TokPrec + 1, RHS, g1)
         ELSE [g1 EXCEPT !.res = RHS],
         LAMBDA r2 :
             IF IsNull(r2.res) THEN r2
             ELSE ParseBinOpRHS(ExprPrec, BinaryExprAST(BinOp, LHS, r2.res), r2))

ParseBinOpRHS(ExprPrec, LHS, r) ==
    Bind(GetTokPrecedence(r), LAMBDA g :
        IF g.prec < ExprPrec THEN [g EXCEPT !.res = LHS]
        ELSE Bind(getNextToken(g), LAMBDA r0 :
             Bind(ParsePrimay(r0), LAMBDA r1 :
                 IF IsNull(r1.res) THEN r1
                 ELSE Bind(GetTokPrecedence(r1), LAMBDA g1 :
                          BinOpJoin(ExprPrec, LHS, g.CurTok, g.prec,
                                    r1.res, g1)))))

ParseExpression(r) ==
    Bind(ParsePrimay(r), LAMBDA r1 :
        IF IsNull(r1.res) THEN r1 ELSE ParseBinOpRHS(0, r1.res, r1))

\* an argument loop that puts each name in front of the ones before it
RECURSIVE ScanArgNames_Reversed(_)
ScanArgNames_Reversed(r) ==
    Bind(getNextToken(r), LAMBDA r1 :
        IF r1.CurTok = tok_identifier
        THEN Bind([r1 EXCEPT !.str = <<r1.IdentifierStr>> \o @],
                  LAMBDA r2 : ScanArgNames_Reversed(r2))
        ELSE r1)

\* while (getNextToken() == tok_identifier) ArgNames.push_back(IdentifierStr);
\* ArgNames is a local of ParsePrototype; the machine carries it in field str.
RECURSIVE ScanArgNames(_)
ScanArgNames(r) ==
    Bind(getNextToken(r), LAMBDA r1 :
        IF r1.CurTok = tok_identifier
        THEN Bind([r1 EXCEPT !.str = Append(@, r1.IdentifierStr)],
                  LAMBDA r2 : ScanArgNames(r2))
        ELSE r1)

\* ParsePrototype from std::string FnName = IdentifierStr; on
PrototypeAfterName(r) ==
    Bind(getNextToken(r), LAMBDA r1 :
        IF r1.CurTok # 40 THEN LogError(r1, "Expected '(' in prototype")
        ELSE Bind(ScanArgNames([r1 EXCEPT !.str = <<>>]), LAMBDA r2 :
            IF r2.CurTok # 41
            THEN LogError([r2 EXCEPT !.str = <<>>], "Expected ')' in prototype")
            ELSE Bind(getNextToken(r2), LAMBDA r3 :
                [r3 EXCEPT !.res = PrototypeAST(r.IdentifierStr, r2.str),
                           !.str = <<>>])))

\* a ParsePrototype that eats the offending token before it reports it
ParsePrototype_EatsToken(r) ==
    IF r.CurTok # tok_identifier
    THEN Bind(getNextToken(r), LAMBDA r1 :
             LogError(r1, "Expected function name in prototype"))
    ELSE PrototypeAfterName(r)

ParsePrototype(r) ==
    IF r.CurTok # tok_identifier
    THEN LogError(r, "Expected function name in prototype")
    ELSE PrototypeAfterName(r)

\* a ParseDefination without the if (!Proto) return nullptr;
ParseDefination_NoCheck(r) ==
    Bind(getNextToken(r), LAMBDA r0 :
    Bind(ParsePrototype(r0), LAMBDA r1 :
    Bind(ParseExpression(r1), LAMBDA r2 :
        IF ~IsNull(r2.res)
        THEN [r2 EXCEPT !.res = FunctionAST(r1.res, r2.res)]
        ELSE r2)))

ParseDefination(r) ==
    Bind(getNextToken(r), LAMBDA r0 :
    Bind(ParsePrototype(r0), LAMBDA r1 :
        IF IsNull(r1.res) THEN r1
        ELSE Bind(ParseExpression(r1), LAMBDA r2 :
                 IF ~IsNull(r2.res)
                 THEN [r2 EXCEPT !.res = FunctionAST(r1.res, r2.res)]
                 ELSE r2)))

AnonExpr == Str(<<"_", "_", "a", "n", "o", "n", "_", "e", "x", "p", "r">>)

ParseTopLevelExpr(r) ==
    Bind(ParseExpression(r), LAMBDA r1 :
        IF ~IsNull(r1.res)
        THEN [r1 EXCEPT !.res = FunctionAST(PrototypeAST(AnonExpr, <<>>), r1.res)]
        ELSE r1)

ParseExtern(r) == Bind(getNextToken(r), LAMBDA r1 : ParsePrototype(r1))

----------------------------------------------------------------------------
(* Top-level parsing *)

\* a HandleDefinition without the recovery getNextToken()
HandleDefinition_NoSkip(r) == ParseDefination(r)

HandleDefinition(r) ==
    Bind(ParseDefination(r), LAMBDA r1 :
        IF ~IsNull(r1.res) THEN r1 ELSE getNextToken(r1))

HandleExtern(r) ==
    Bind(ParseExtern(r), LAMBDA r1 :
        IF ~IsNull(r1.res) THEN r1 ELSE getNextToken(r1))

HandleTopLevelExpresison(r) ==
    Bind(ParseTopLevelExpr(r), LAMBDA r1 :
        IF ~IsNull(r1.res) THEN r1 ELSE getNextToken(r1))

\* the switch of MainLoop: what one iteration runs for the lookahead tok
Dispatch(tok) ==
    IF tok = tok_eof THEN "return"
    ELSE IF tok = 59 THEN "getNextToken"
    ELSE IF tok = tok_def THEN "HandleDefinition"
    ELSE IF tok = tok_extern THEN "HandleExtern"
    ELSE "break"

\* the parse entry point each handler calls
EntryOf(h) ==
    IF h = "HandleDefinition" THEN "ParseDefination"
    ELSE IF h = "HandleExtern" THEN "ParseExtern"
    ELSE IF h = "HandleTopLevelExpresison" THEN "ParseTopLevelExpr"
    ELSE "none"

RunEntry(e, r) ==
    IF e = "ParseDefination" THEN ParseDefination(r)
    ELSE IF e = "ParseExtern" THEN ParseExtern(r)
    ELSE IF e = "ParseTopLevelExpr" THEN ParseTopLevelExpr(r)
    ELSE r

RunHandler(h, r) ==
    IF h = "getNextToken" THEN getNextToken(r)
    ELSE IF h = "HandleDefinition" THEN HandleDefinition(r)
    ELSE IF h = "HandleExtern" THEN HandleExtern(r)
    ELSE IF h = "HandleTopLevelExpresison" THEN HandleTopLevelExpresison(r)
    ELSE r

\* BinopPrecedence[key] = value;
MapSet(tbl, key, value) ==
    [k \in DOMAIN tbl \cup {key} |-> IF k = key THEN value ELSE tbl[k]]

\* the four assignments at the head of main
InstallPrecedence(r) ==
    [r EXCEPT !.BinopPrecedence =
        MapSet(MapSet(MapSet(MapSet(@, 60, 10), 43, 20), 45, 30), 42, 40)]

----------------------------------------------------------------------------
(* Inputs *)

MaxChunks == 4

\* All texts made of at most n pieces drawn from C.
RECURSIVE Concat(_, _)
Concat(C, n) ==
    IF n = 0 THEN {<<>>}
    ELSE LET prev == Concat(C, n - 1) IN
         prev \cup {p \o c : p \in prev, c \in C}

LexChunks ==
    { Str(<<"d", "e", "f">>), Str(<<"a">>), Str(<<"1">>), Str(<<".">>),
      Str(<<" ">>), Str(<<"\n">>), Str(<<"\r">>), Str(<<"#">>),
      Str(<<"+">>), Str(<<";">>) }

CommentExample ==
    Str(<<"1", " ", "#", " ", "c", "o", "m", "m", "e", "n", "t", "\n", "+", "2">>)

Lex_12ab == Str(<<"1", "2", "a", "b">>)
Lex_abdot5 == Str(<<"a", "b", ".", "5">>)

LexInputs ==
    Concat(LexChunks, MaxChunks)
        \cup { CommentExample, Str(<<"1", "\n", "+", "2">>),
               Str(<<"e", "x", "t", "e", "r", "n", " ", "a">>),
               Str(<<"e", "x", "t", "e", "r", "n", "1", "(">>),
               Str(<<"D", "e", "f", " ", "d", "e", "f", "1">>),
               Lex_12ab, Lex_abdot5 }

ProgChunks ==
    { Str(<<"d", "e", "f">>), Str(<<"e", "x", "t", "e", "r", "n">>),
      Str(<<"a">>), Str(<<"1">>), Str(<<" ">>), Str(<<"\n">>),
      Str(<<"(">>), Str(<<")">>), Str(<<";">>), Str(<<"#">>) }

DefNoName == Str(<<"d", "e", "f", " ", "(", ")", " ", "x">>)

ProgInputs ==
    Concat(ProgChunks, MaxChunks)
        \cup { DefNoName,
               Str(<<"d", "e", "f", " ", "a", "(", "x", ")", " ", "1", ";">>),
               Str(<<"e", "x", "t", "e", "r", "n", " ", "a", "(", ")", ";">>) }

ExprChunks ==
    { Str(<<"a">>), Str(<<"1">>), Str(<<"2">>), Str(<<" ">>), Str(<<"(">>),
      Str(<<")">>), Str(<<",">>), Str(<<"+">>), Str(<<"*">>), Str(<<"-">>) }

Expr_1p2m3 == Str(<<"1", "+", "2", "*", "3">>)
Expr_1m2p3 == Str(<<"1", "*", "2", "+", "3">>)
Expr_1s2s3 == Str(<<"1", "-", "2", "-", "3">>)
Expr_foo12 == Str(<<"f", "o", "o", "(", "1", " ", "2", ")">>)

ExprInputs ==
    Concat(ExprChunks, MaxChunks)
        \cup { Expr_1p2m3, Expr_1m2p3, Expr_1s2s3, Expr_foo12 }

----------------------------------------------------------------------------
(* Lexer harness: repeated gettok calls on one input, up to and including  *)
(* the first tok_eof.                                                      *)

Token(r) ==
    [tok |-> r.ret,
     id  |-> IF r.ret = tok_identifier THEN r.IdentifierStr ELSE <<>>,
     num |-> IF r.ret = tok_number THEN r.NumVal ELSE Dec(0, 0)]

NoCall == [op |-> "none"]

InitStatics ==
    /\ input = src
    /\ nread = 0
    /\ LastChar = 32
    /\ IdentifierStr = <<>>
    /\ NumVal = Dec(0, 0)
    /\ CurTok = 0
    /\ BinopPrecedence = <<>>
    /\ errs = <<>>
    /\ ntok = 0
    /\ prompts = 0
    /\ toks = <<>>
    /\ extra = 0
    /\ last = NoCall

InitLex ==
    /\ src \in LexInputs
    /\ fed = FALSE
    /\ stream = <<>>
    /\ given = <<>>
    /\ InitStatics
    /\ pc = "lex"

\* The call record of a gettok call: the first character the call examines
\* (start) and the getchar calls made before it (n0), the cursor character
\* after the whitespace skip (cur) and its index in src (pos), the token
\* returned (ret) and the getchar calls made after the skip (adv).
GettokRecord(r0, r) ==
    [op |-> "gettok", start |-> LastChar, n0 |-> nread, cur |-> r0.LastChar,
     pos |-> r0.nread, ret |-> r.ret, adv |-> r.nread - r0.nread]

CallGettok ==
    /\ pc = "lex"
    /\ \E r0 \in {SkipSpace(Machine)}, r \in {gettok(Machine)} :
           /\ Store(r)
           /\ toks' = Append(toks, Token(r))
           /\ last' = GettokRecord(r0, r)
           /\ pc' = IF r.ret = tok_eof THEN "lexdone" ELSE "lex"
    /\ UNCHANGED <<src, fed, prompts, extra, given>>

MaxExtraCalls == 2

\* gettok called again after it has returned tok_eof
CallGettokAgain ==
    /\ pc = "lexdone"
    /\ extra < MaxExtraCalls
    /\ \E r0 \in {SkipSpace(Machine)}, r \in {gettok(Machine)} :
           /\ Store(r)
           /\ last' = GettokRecord(r0, r)
    /\ extra' = extra + 1
    /\ UNCHANGED <<src, fed, prompts, given, toks, pc>>

NextLex == CallGettok \/ CallGettokAgain

SpecLex == InitLex /\ [][NextLex]_vars

----------------------------------------------------------------------------
(* Lexer claims *)

Fresh(s) ==
    [input |-> s, nread |-> 0, LastChar |-> 32, IdentifierStr |-> <<>>,
     NumVal |-> Dec(0, 0), CurTok |-> 0, BinopPrecedence |-> <<>>,
     errs |-> <<>>, ntok |-> 0, fed |-> FALSE, stream |-> <<>>,
     str |-> <<>>, ret |-> 0, prec |-> 0, res |-> NULL, fail |-> NoFail]

\* The tokens of repeated gettok calls, up to and including the first tok_eof.
RECURSIVE TokensFrom(_)
TokensFrom(r) ==
    LET r1 == gettok(r) IN
    IF r1.ret = tok_eof THEN <<Token(r1)>> ELSE <<Token(r1)>> \o TokensFrom(r1)

TokensOf(s) == TokensFrom(Fresh(s))

\* The text with every comment deleted: each run from '#' up to, but not
\* including, the line end that terminates it (or to the end of the text).
RECURSIVE StripFrom(_, _)
StripFrom(s, inComment) ==
    IF s = <<>> THEN <<>>
    ELSE IF inComment
         THEN IF Head(s) = 10 \/ Head(s) = 13
              THEN <<Head(s)>> \o StripFrom(Tail(s), FALSE)
              ELSE StripFrom(Tail(s), TRUE)
         ELSE IF Head(s) = 35 THEN StripFrom(Tail(s), TRUE)
              ELSE <<Head(s)>> \o StripFrom(Tail(s), FALSE)

StripComments(s) == StripFrom(s, FALSE)

IsSymbolChar(c) ==
    ~isalpha(c) /\ ~isdigit(c) /\ c # 46 /\ c # 35 /\ c # EOF

\* C1: a gettok call whose cursor character, after the whitespace skip, is
\* neither alphabetic, a digit, '.', '#' nor end-of-input returns that
\* character's code as the token and reads exactly one more character.
C1_SymbolToken ==
    (last.op = "gettok" /\ IsSymbolChar(last.cur))
        => (last.ret = last.cur /\ last.adv = 1)

\* C2: gettok returns tok_eof only when the input is exhausted: on return the
\* cursor holds end-of-input and no character is left unread.
C2_EofOnlyAtEnd ==
    (last.op = "gettok" /\ last.ret = tok_eof)
        => (LastChar = EOF /\ input = <<>>)

\* C10: comments are transparent: the tokens returned up to and including
\* the first tok_eof are those of the text with its comments deleted.
C10_CommentTransparent ==
    pc = "lexdone" => toks = TokensOf(StripComments(src))

C10_Witness ==
    /\ pc = "lexdone"
    /\ \E i \in 1..Len(src) : src[i] = 35
    /\ StripComments(src) # src
    /\ Len(toks) >= 3

CharAt(s, i) == IF i >= 1 /\ i <= Len(s) THEN s[i] ELSE EOF

\* The maximal run of alphanumeric characters of s that starts at index i.
RECURSIVE AlnumRun(_, _)
AlnumRun(s, i) ==
    IF isalnum(CharAt(s, i)) THEN <<s[i]>> \o AlnumRun(s, i + 1) ELSE <<>>

\* The maximal run of digits and dots of s that starts at index i.
RECURSIVE NumberRun(_, _)
NumberRun(s, i) ==
    IF isdigit(CharAt(s, i)) \/ CharAt(s, i) = 46
    THEN <<s[i]>> \o NumberRun(s, i + 1) ELSE <<>>

\* C11: with an alphabetic cursor character gettok consumes the maximal
\* alphanumeric run that starts there and returns tok_def iff the run is
\* "def", tok_extern iff it is "extern", and otherwise tok_identifier with
\* the run as IdentifierStr.
C11_Identifier ==
    (last.op = "gettok" /\ isalpha(last.cur)) =>
        LET run == AlnumRun(src, last.pos) IN
        /\ last.adv = Len(run)
        /\ IdentifierStr = run
        /\ (last.ret = tok_def) <=> (run = Str(<<"d", "e", "f">>))
        /\ (last.ret = tok_extern) <=> (run = Str(<<"e", "x", "t", "e", "r", "n">>))
        /\ last.ret \in {tok_def, tok_extern, tok_identifier}

C11_Witness ==
    /\ last.op = "gettok"
    /\ isalpha(last.cur)
    /\ last.ret = tok_identifier
    /\ IdentifierStr = Str(<<"d", "e", "f", "1">>)
    /\ \E i \in 1..Len(toks) : toks[i].id = Str(<<"D", "e", "f">>)

C17_EofAbsorbing == extra > 0 => last.ret = tok_eof

C17_Witness ==
    /\ extra = 2
    /\ last.ret = tok_eof
    /\ LastChar = EOF
    /\ Len(toks) >= 3

----------------------------------------------------------------------------
(* The program: main installs the precedences and primes the lookahead,    *)
(* then MainLoop runs one iteration per step until it returns.             *)

InitProg ==
    /\ src \in ProgInputs
    /\ fed = FALSE
    /\ stream = <<>>
    /\ given = <<>>
    /\ InitStatics
    /\ pc = "main"

Main ==
    /\ pc = "main"
    /\ \E r \in {getNextToken(InstallPrecedence(Machine))} : Store(r)
    /\ prompts' = (prompts + 1) % 2
    /\ last' = [op |-> "main"]
    /\ pc' = "loop"
    /\ UNCHANGED <<src, fed, toks, extra, given>>

\* One iteration of while (true) in MainLoop.  The call record keeps the
\* lookahead the switch saw, the handler and parse entry point it ran, whether
\* that entry point returned an AST, the token that followed the keyword,
\* the getNextToken calls made inside the entry point (ptok) and by the
\* handler after it returned (rtok), and the errors the entry point logged.
MainLoop ==
    /\ pc = "loop"
    /\ \E h \in {Dispatch(CurTok)} :
       \E e \in {EntryOf(h)} :
       \E p \in {RunEntry(e, Machine)}, r \in {RunHandler(h, Machine)} :
           /\ Store(r)
           /\ last' = [op |-> "MainLoop", tok |-> CurTok, handler |-> h,
                       entry |-> e, ok |-> (e # "none" /\ ~IsNull(p.res)),
                       next |-> getNextToken(Machine).CurTok,
                       ptok |-> p.ntok - ntok, rtok |-> r.ntok - p.ntok,
                       perrs |-> SubSeq(p.errs, Len(errs) + 1, Len(p.errs))]
           /\ pc' = IF h = "return" THEN "done" ELSE "loop"
    /\ prompts' = (prompts + 1) % 2
    /\ UNCHANGED <<src, fed, toks, extra, given>>

Next == Main \/ MainLoop

Spec == InitProg /\ [][Next]_vars

\* while (true) never pauses: an iteration that can run does run.
FairSpec == Spec /\ WF_vars(Next)

----------------------------------------------------------------------------
(* Parser harness: prime the lookahead once, then call one parse function. *)

MaxToks == 3
MaxOps == 3
MaxArgs == 2

Tok(t) == [tok |-> t, id |-> <<>>, num |-> Dec(0, 0)]
IdTok(s) == [tok |-> tok_identifier, id |-> s, num |-> Dec(0, 0)]
NumTok(m) == [tok |-> tok_number, id |-> <<>>, num |-> Dec(m, 0)]
DefTok == [tok |-> tok_def, id |-> Str(<<"d", "e", "f">>), num |-> Dec(0, 0)]
ExternTok ==
    [tok |-> tok_extern, id |-> Str(<<"e", "x", "t", "e", "r", "n">>),
     num |-> Dec(0, 0)]

TokAlphabet ==
    { NumTok(1), NumTok(2), IdTok(Str(<<"a">>)), Tok(43), Tok(42), Tok(45),
      Tok(60), Tok(40), Tok(41), Tok(44) }

RECURSIVE Streams(_)
Streams(n) ==
    IF n = 0 THEN {<<>>}
    ELSE LET prev == Streams(n - 1) IN
         prev \cup {Append(p, t) : p \in prev, t \in TokAlphabet}

\* operand (operator operand)^k with k <= n
RECURSIVE Chains(_)
Chains(n) ==
    LET operands == {NumTok(1), IdTok(Str(<<"a">>))} IN
    IF n = 0 THEN {<<p>> : p \in operands}
    ELSE LET prev == Chains(n - 1) IN
         prev \cup {c \o <<Tok(o), p>> :
                       c \in prev, o \in {60, 43, 45, 42}, p \in operands}

\* a chain, alone or followed by one more token
ChainStreams(n) ==
    {c \o t : c \in Chains(n),
              t \in {<<>>, <<Tok(41)>>, <<Tok(44)>>, <<Tok(40)>>, <<NumTok(2)>>}}

\* at most n parameter names
RECURSIVE ArgLists(_)
ArgLists(n) ==
    IF n = 0 THEN {<<>>}
    ELSE LET prev == ArgLists(n - 1) IN
         prev \cup {Append(p, IdTok(x)) :
                       p \in prev, x \in {Str(<<"a">>), Str(<<"x">>)}}

\* name '(' names, and what may follow them
ProtoStreams(n) ==
    {<<IdTok(Str(<<"f">>)), Tok(40)>> \o a \o t :
        a \in ArgLists(n),
        t \in {<<>>, <<Tok(41)>>, <<Tok(41), NumTok(1)>>, <<Tok(44)>>,
               <<Tok(41), Tok(40)>>, <<NumTok(1)>>}}

\* 'def' or 'extern', a prototype, the start of a body
DeclStreams(n) ==
    {<<k>> \o p \o b :
        k \in {DefTok, ExternTok}, p \in ProtoStreams(n),
        b \in {<<>>, <<Tok(43)>>, <<Tok(43), NumTok(2)>>, <<Tok(40)>>,
               <<Tok(42), IdTok(Str(<<"a">>)), Tok(40)>>}}

TokInputs ==
    Streams(MaxToks) \cup ChainStreams(MaxOps) \cup ProtoStreams(MaxArgs)
        \cup DeclStreams(MaxArgs)

InitExpr ==
    /\ src \in ExprInputs
    /\ fed = FALSE
    /\ stream = <<>>
    /\ given = <<>>
    /\ InitStatics
    /\ pc = "prime"

InitTok ==
    /\ src = <<>>
    /\ fed = TRUE
    /\ stream \in TokInputs
    /\ given = stream
    /\ InitStatics
    /\ pc = "prime"

Prime ==
    /\ pc = "prime"
    /\ \E r \in {getNextToken(InstallPrecedence(Machine))} : Store(r)
    /\ last' = [op |-> "prime"]
    /\ pc' = "parse"
    /\ UNCHANGED <<src, fed, prompts, toks, extra, given>>

\* The call record of a parse function: its result, the tokens it consumed,
\* the messages it reported, the lookahead it was entered with, its first
\* failure, and (ParseBinOpRHS) its two arguments.
ParseRecord(op, r, ExprPrec, LHS) ==
    [op |-> op, res |-> r.res, ptok |-> r.ntok - ntok,
     perrs |-> SubSeq(r.errs, Len(errs) + 1, Len(r.errs)),
     tok0 |-> CurTok, fail |-> r.fail, min |-> ExprPrec, left |-> LHS]

CallParseExpression ==
    /\ pc = "parse"
    /\ \E r \in {ParseExpression(Machine)} :
       /\ Store(r)
       /\ last' = ParseRecord("ParseExpression", r, 0, NULL)
    /\ pc' = "parsed"
    /\ UNCHANGED <<src, fed, prompts, toks, extra, given>>

CallParsePrototype ==
    /\ pc = "parse"
    /\ \E r \in {ParsePrototype(Machine)} :
       /\ Store(r)
       /\ last' = ParseRecord("ParsePrototype", r, 0, NULL)
    /\ pc' = "parsed"
    /\ UNCHANGED <<src, fed, prompts, toks, extra, given>>

\* the entry point a top-level handler calls for the lookahead tok
EntryFor(tok) ==
    IF tok = tok_def THEN "ParseDefination"
    ELSE IF tok = tok_extern THEN "ParseExtern"
    ELSE "ParseTopLevelExpr"

CallParseEntry ==
    /\ pc = "parse"
    /\ CurTok \notin {tok_eof, 59}
    /\ \E r \in {RunEntry(EntryFor(CurTok), Machine)} :
       /\ Store(r)
       /\ last' = ParseRecord(EntryFor(CurTok), r, 0, NULL)
    /\ pc' = "parsed"
    /\ UNCHANGED <<src, fed, prompts, toks, extra, given>>

\* ParseBinOpRHS is called with 0 (ParseExpression) and with TokPrec + 1.
CallParseBinOpRHS ==
    /\ pc = "parse"
    /\ \E ExprPrec \in {0, 11, 21, 31, 41},
          LHS \in {NumberExprAST(Dec(2, 0)), VariableExprAST(Str(<<"x">>))} :
          \E r \in {ParseBinOpRHS(ExprPrec, LHS, Machine)} :
             /\ Store(r)
             /\ last' = ParseRecord("ParseBinOpRHS", r, ExprPrec, LHS)
    /\ pc' = "parsed"
    /\ UNCHANGED <<src, fed, prompts, toks, extra, given>>

NextParse ==
    \/ Prime
    \/ CallParseExpression
    \/ CallParsePrototype
    \/ CallParseEntry
    \/ CallParseBinOpRHS

SpecExpr == InitExpr /\ [][NextParse]_vars

SpecTok == InitTok /\ [][NextParse]_vars

----------------------------------------------------------------------------
(* Driver claims *)

\* C3: on every finite input the program (main priming the lookahead, then
\* MainLoop) eventually terminates.
C3_Terminates == <>(pc = "done")

\* C4: every iteration of the driver loop dispatches on the lookahead: Def
\* runs ParseDefination, Extern runs ParseExtern, and any other token that is
\* neither end-of-input nor ';' runs ParseTopLevelExpr.
C4_Dispatch ==
    last.op = "MainLoop" =>
        /\ last.tok = tok_def => last.entry = "ParseDefination"
        /\ last.tok = tok_extern => last.entry = "ParseExtern"
        /\ last.tok \notin {tok_eof, 59, tok_def, tok_extern}
               => last.entry = "ParseTopLevelExpr"

FailedEntry ==
    /\ last.op = "MainLoop"
    /\ last.entry \in {"ParseDefination", "ParseExtern"}
    /\ ~last.ok

\* C7: when ParseDefination or ParseExtern returns failure, the driver
\* advances the lookahead exactly once and the loop goes on.
C7_SingleTokenRecovery == FailedEntry => (last.rtok = 1 /\ pc = "loop")

C7_Witness ==
    /\ FailedEntry
    /\ last.entry = "ParseDefination"
    /\ last.rtok = 1
    /\ pc = "loop"

NoNameAfterKeyword ==
    /\ last.op = "MainLoop"
    /\ last.entry \in {"ParseDefination", "ParseExtern"}
    /\ last.next # tok_identifier

\* C9: when the token after 'def' or 'extern' is not an identifier, the parse
\* fails with "Expected function name in prototype", returns no AST and has
\* consumed the keyword token only.
C9_MissingName ==
    NoNameAfterKeyword =>
        /\ ~last.ok
        /\ last.perrs = <<"Expected function name in prototype">>
        /\ last.ptok = 1

C9_Witness ==
    /\ NoNameAfterKeyword
    /\ src = DefNoName
    /\ last.entry = "ParseDefination"
    /\ ~last.ok

----------------------------------------------------------------------------
(* Parser claims *)

Num(n) == NumberExprAST(Dec(n, 0))

\* C5: ParseExpression on "1+2*3", "1*2+3" and "1-2-3" returns
\* ('+', 1, ('*', 2, 3)), ('+', ('*', 1, 2), 3) and ('-', ('-', 1, 2), 3).
C5_Precedence ==
    (pc = "parsed" /\ last.op = "ParseExpression") =>
        /\ src = Expr_1p2m3 =>
               last.res = BinaryExprAST(43, Num(1), BinaryExprAST(42, Num(2), Num(3)))
        /\ src = Expr_1m2p3 =>
               last.res = BinaryExprAST(43, BinaryExprAST(42, Num(1), Num(2)), Num(3))
        /\ src = Expr_1s2s3 =>
               last.res = BinaryExprAST(45, BinaryExprAST(45, Num(1), Num(2)), Num(3))

PrecTable == (60 :> 10) @@ (43 :> 20) @@ (45 :> 30) @@ (42 :> 40)

----------------------------------------------------------------------------
(* Token-level parser claims *)

IsOperand(t) == t.tok \in {tok_number, tok_identifier}
IsOperator(t) == t.tok \in DOMAIN PrecTable

\* the token at index i of stream s; tok_eof past its end
TokAt(s, i) == IF i >= 1 /\ i <= Len(s) THEN s[i].tok ELSE tok_eof

\* the index of the last operand of the operator chain whose operand is at i
RECURSIVE ChainEnd(_, _)
ChainEnd(s, i) ==
    IF i + 2 <= Len(s) /\ IsOperator(s[i + 1]) /\ IsOperand(s[i + 2])
    THEN ChainEnd(s, i + 2)
    ELSE i

\* s is p0 o1 p1 ... on pn followed by a token outside the precedence table
ChainForm(s) ==
    /\ s # <<>>
    /\ IsOperand(s[1])
    /\ TokAt(s, ChainEnd(s, 1) + 1) \notin DOMAIN PrecTable

Leaf(t) ==
    IF t.tok = tok_number THEN NumberExprAST(t.num) ELSE VariableExprAST(t.id)

\* The reference grouping of operands ps joined by operators os: the tree
\* splits at the last operator of lowest precedence.
RECURSIVE RefTree(_, _)
RefTree(ps, os) ==
    IF os = <<>> THEN Leaf(ps[1])
    ELSE LET low == CHOOSE k \in 1..Len(os) :
                       /\ \A j \in 1..Len(os) :
                              PrecTable[os[k].tok] <= PrecTable[os[j].tok]
                       /\ \A j \in (k + 1)..Len(os) :
                              PrecTable[os[k].tok] < PrecTable[os[j].tok]
         IN  BinaryExprAST(os[low].tok,
                 RefTree(SubSeq(ps, 1, low), SubSeq(os, 1, low - 1)),
                 RefTree(SubSeq(ps, low + 1, Len(ps)),
                         SubSeq(os, low + 1, Len(os))))

\* the reference tree of the operator chain at the head of s
ChainTree(s) ==
    LET n == (ChainEnd(s, 1) - 1) \div 2 IN
    RefTree([k \in 1..(n + 1) |-> s[2 * k - 1]], [k \in 1..n |-> s[2 * k]])

\* the chain ends in an identifier that a '(' follows: a call, not a variable
CallAtEnd(s) ==
    /\ s[ChainEnd(s, 1)].tok = tok_identifier
    /\ TokAt(s, ChainEnd(s, 1) + 1) = 40

\* C12 as stated: on every stream p0 o1 p1 ... on pn followed by a token that
\* is not in the precedence table, ParseExpression succeeds and returns the
\* reference grouping.
C12_AnyTerminator ==
    (last.op = "ParseExpression" /\ ChainForm(given)) =>
        /\ last.res = ChainTree(given)
        /\ last.perrs = <<>>

\* C12: on every stream p0 o1 p1 ... on pn followed by a token that is not in
\* the precedence table and is not a '(' after an identifier pn,
\* ParseExpression succeeds and returns the reference grouping: higher
\* precedence binds tighter, equal precedence groups to the left.
C12_Grouping ==
    (last.op = "ParseExpression" /\ ChainForm(given) /\ ~CallAtEnd(given)) =>
        /\ last.res = ChainTree(given)
        /\ last.perrs = <<>>

C12_Witness ==
    /\ last.op = "ParseExpression"
    /\ given = <<NumTok(1), Tok(43), IdTok(Str(<<"a">>)), Tok(45), NumTok(1),
                 Tok(45), IdTok(Str(<<"a">>)), Tok(41)>>
    /\ last.res =
           BinaryExprAST(43, Num(1),
               BinaryExprAST(45,
                   BinaryExprAST(45, VariableExprAST(Str(<<"a">>)), Num(1)),
                   VariableExprAST(Str(<<"a">>))))
    /\ CurTok = 41

\* the number of identifier tokens of s from index i on
RECURSIVE NameRun(_, _)
NameRun(s, i) ==
    IF TokAt(s, i) = tok_identifier THEN 1 + NameRun(s, i + 1) ELSE 0

\* C13: on Identifier(n) '(' Identifier(a1) ... Identifier(ak) ')' t,
\* ParsePrototype returns Prototype(n, [a1..ak]) and leaves the lookahead at
\* t; a token other than ')' after the parameter names fails with
\* "Expected ')' in prototype", a token other than '(' after the name with
\* "Expected '(' in prototype".
C13_Prototype ==
    (last.op = "ParsePrototype" /\ TokAt(given, 1) = tok_identifier) =>
        IF TokAt(given, 2) # 40
        THEN /\ IsNull(last.res)
             /\ last.perrs = <<"Expected '(' in prototype">>
        ELSE LET k == NameRun(given, 3) IN
             IF TokAt(given, 3 + k) # 41
             THEN /\ IsNull(last.res)
                  /\ last.perrs = <<"Expected ')' in prototype">>
             ELSE /\ last.res =
                        PrototypeAST(given[1].id,
                                     [i \in 1..k |-> given[2 + i].id])
                  /\ last.perrs = <<>>
                  /\ CurTok = TokAt(given, 4 + k)
                  /\ stream = SubSeq(given, 5 + k, Len(given))

C13_Witness ==
    /\ last.op = "ParsePrototype"
    /\ last.res = PrototypeAST(Str(<<"f">>), <<Str(<<"a">>), Str(<<"x">>)>>)
    /\ CurTok = tok_number
    /\ last.ptok = 5

ComposingCall ==
    /\ pc = "parsed"
    /\ last.op \in {"ParseExpression", "ParseBinOpRHS", "ParseDefination",
                    "ParseTopLevelExpr", "ParseExtern"}

\* C14: once a sub-parse has returned failure, the composing function
\* returns failure at once: it returns no AST, and the lookahead, the token
\* position, the messages and every other static are what they were when
\* the failing sub-parse returned.
C14_FailurePropagates ==
    ComposingCall =>
        /\ IsNull(last.res) <=> last.fail.set
        /\ last.fail.set => last.fail.at = Statics(Machine)

C14_Witness ==
    /\ ComposingCall
    /\ last.op = "ParseDefination"
    /\ IsNull(last.res)
    /\ last.fail.set
    /\ last.ptok = 8
    /\ last.perrs = <<"unknown token when expecting an expression">>

\* the precedence of token tok: its table entry, -1 for every other token
TokPrecedence(tok) == IF tok \in DOMAIN PrecTable THEN PrecTable[tok] ELSE -1

\* C15: ParseBinOpRHS(min_precedence, left), entered at a token whose
\* precedence is below min_precedence, returns left, consumes no token and
\* reports no error.
C15_BelowMinimum ==
    (last.op = "ParseBinOpRHS" /\ TokPrecedence(last.tok0) < last.min) =>
        /\ last.res = last.left
        /\ last.ptok = 0
        /\ CurTok = last.tok0
        /\ stream = SubSeq(given, 2, Len(given))
        /\ last.perrs = <<>>

C15_Witness ==
    /\ last.op = "ParseBinOpRHS"
    /\ last.tok0 = 43
    /\ last.min = 21
    /\ last.res = last.left
    /\ last.ptok = 0
    /\ Len(given) >= 2

EntryCall ==
    /\ pc = "parsed"
    /\ last.op \in {"ParseDefination", "ParseExtern", "ParseTopLevelExpr"}

\* C18: a call of ParseDefination, ParseExtern or ParseTopLevelExpr that
\* returns failure has reported exactly one message, and a call that returns
\* an AST has reported none.
C18_OneMessage ==
    EntryCall =>
        /\ IsNull(last.res) => Len(last.perrs) = 1
        /\ ~IsNull(last.res) => last.perrs = <<>>

C18_Witness ==
    /\ EntryCall
    /\ last.op = "ParseTopLevelExpr"
    /\ IsNull(last.res)
    /\ last.perrs = <<"expected ')'">>
    /\ last.ptok = 2

====
